---- MODULE Spec2Model ----
(***************************************************************************)
(* Model of weather.py, the Open-Meteo weather server: the two tools       *)
(* get_forecast and get_alerts and their helpers _units_map,               *)
(* _code_to_text, _om_get and _fmt_alert_item.                             *)
(*                                                                         *)
(* Representation.                                                         *)
(*  - A Python value is a tagged record: None, PyInt(n), PyStr(s),         *)
(*    PyList(items), PyDict(m), with m a function from TLA+ strings (the   *)
(*    keys) to Python values.                                              *)
(*  - A Python str is a sequence of chunks.  A chunk is either one         *)
(*    character ("i", "I", " ", "\n") or a literal of the source taken     *)
(*    whole ("Severidad: ").  Caller-supplied strings (units, language)    *)
(*    are written character by character, so that lower(), startswith()    *)
(*    and == act on characters.  Provider-supplied strings are chunks      *)
(*    with no whitespace at either end.                                    *)
(*  - Characters outside Latin-1 are transliterated: the warning sign of   *)
(*    the alert headline line is written "(!)", the ellipsis of map_en[97] *)
(*    "...".                                                               *)
(*  - A call that can raise returns [exc |-> name, val |-> value]; exc is  *)
(*    "none" when the call returns normally.                               *)
(***************************************************************************)
EXTENDS Integers, Sequences, FiniteSets, TLC

VARIABLES pc, op, args, request, data, result

vars == <<pc, op, args, request, data, result>>

(***************************************************************************)
(* Bounds of the model.                                                    *)
(***************************************************************************)
\* longest 'time' list of a forecast response
MaxDates == 2
\* how far below 1 and above 16 the requested day count ranges
DaysSlack == 1
\* most alert records in one response
MaxAlerts == 2

(***************************************************************************)
(* Python values.                                                          *)
(***************************************************************************)
None == [t |-> "NoneType"]

PyInt(n) == [t |-> "int", n |-> n]

PyStr(s) == [t |-> "str", s |-> s]

PyList(items) == [t |-> "list", items |-> items]

PyDict(m) == [t |-> "dict", m |-> m]

EmptyDict == PyDict([k \in {} |-> None])

\* bool(v): None, 0, "", [] and {} are false, everything else is true
Truthy(v) ==
    CASE v.t = "NoneType" -> FALSE
      [] v.t = "int" -> v.n # 0
      [] v.t = "str" -> v.s # <<>>
      [] v.t = "list" -> v.items # <<>>
      [] v.t = "dict" -> DOMAIN v.m # {}

\* x or y
Or(x, y) == IF Truthy(x) THEN x ELSE y

\* d.get(k, default), d a dict
DictGet(d, k, default) == IF k \in DOMAIN d.m THEN d.m[k] ELSE default

\* format(v, "") as an f-string field does it
Format(v) ==
    CASE v.t = "NoneType" -> <<"None">>
      [] v.t = "int" -> <<ToString(v.n)>>
      [] v.t = "str" -> v.s
      [] v.t = "list" -> <<"[...]">>
      [] v.t = "dict" -> <<"{...}">>

\* int(v); the only str the model hands it is no numeral
Int_(v) ==
    CASE v.t = "int" -> [exc |-> "none", val |-> v.n]
      [] v.t = "str" -> [exc |-> "ValueError", val |-> 0]
      [] OTHER -> [exc |-> "TypeError", val |-> 0]

(***************************************************************************)
(* str methods.                                                            *)
(***************************************************************************)
LowerChar(c) ==
    CASE c = "A" -> "a" [] c = "E" -> "e" [] c = "I" -> "i" [] c = "L" -> "l"
      [] c = "M" -> "m" [] c = "N" -> "n" [] c = "P" -> "p" [] c = "R" -> "r"
      [] c = "S" -> "s" [] c = "X" -> "x"
      [] OTHER -> c

\* s.lower()
Lower(s) == [i \in DOMAIN s |-> LowerChar(s[i])]

\* s.startswith(prefix)
StartsWith(s, prefix) ==
    /\ Len(s) >= Len(prefix)
    /\ SubSeq(s, 1, Len(prefix)) = prefix

IsSpace(c) == c \in {" ", "\n", "\t"}

\* s.strip()
Strip(s) ==
    LET keep == {i \in DOMAIN s : ~IsSpace(s[i])}
    IN  IF keep = {} THEN <<>>
        ELSE SubSeq(s, CHOOSE i \in keep : \A j \in keep : i <= j,
                       CHOOSE i \in keep : \A j \in keep : i >= j)

RECURSIVE Join(_, _)
\* sep.join(parts)
Join(sep, parts) ==
    IF parts = <<>> THEN <<>>
    ELSE IF Len(parts) = 1 THEN parts[1]
    ELSE parts[1] \o sep \o Join(sep, Tail(parts))

(***************************************************************************)
(* _units_map                                                              *)
(***************************************************************************)
Metric == <<"m", "e", "t", "r", "i", "c">>

Imperial == <<"i", "m", "p", "e", "r", "i", "a", "l">>

ImperialUnits ==
    [temperature_unit |-> "fahrenheit", windspeed_unit |-> "mph",
     precipitation_unit |-> "inch"]

MetricUnits ==
    [temperature_unit |-> "celsius", windspeed_unit |-> "kmh",
     precipitation_unit |-> "mm"]

\* _units_map without the .lower()
_units_map_NoLower(units) ==
    LET u == Or(units, PyStr(Metric)).s
    IN  IF u = Imperial THEN ImperialUnits ELSE MetricUnits

\* units is a str or None
_units_map(units) ==
    LET u == Lower(Or(units, PyStr(Metric)).s)
    IN  IF u = Imperial THEN ImperialUnits ELSE MetricUnits

(***************************************************************************)
(* _code_to_text                                                           *)
(***************************************************************************)
map_es ==
    (0 :> "Despejado") @@ (1 :> "Mayormente despejado")
    @@ (2 :> "Parcialmente nublado") @@ (3 :> "Nublado")
    @@ (45 :> "Niebla") @@ (48 :> "Niebla con escarcha")
    @@ (51 :> "Llovizna ligera") @@ (53 :> "Llovizna moderada")
    @@ (55 :> "Llovizna intensa") @@ (56 :> "Llovizna congelante ligera")
    @@ (57 :> "Llovizna congelante intensa") @@ (61 :> "Lluvia ligera")
    @@ (63 :> "Lluvia moderada") @@ (65 :> "Lluvia fuerte")
    @@ (66 :> "Lluvia helada ligera") @@ (67 :> "Lluvia helada intensa")
    @@ (71 :> "Nevadas ligeras") @@ (73 :> "Nevadas moderadas")
    @@ (75 :> "Nevadas fuertes") @@ (77 :> "Granos de nieve")
    @@ (80 :> "Chubascos ligeros") @@ (81 :> "Chubascos moderados")
    @@ (82 :> "Chubascos violentos") @@ (85 :> "Chubascos de nieve ligeros")
    @@ (86 :> "Chubascos de nieve fuertes") @@ (95 :> "Tormenta")
    @@ (96 :> "Tormenta con granizo ligero")
    @@ (97 :> "Tormenta con granizo fuerte")

\* map_en with the entry of code 97 dropped
map_en_Without97 ==
    (0 :> "Clear") @@ (1 :> "Mostly clear") @@ (2 :> "Partly cloudy")
    @@ (3 :> "Overcast")
    @@ (45 :> "Fog") @@ (48 :> "Depositing rime fog")
    @@ (51 :> "Light drizzle") @@ (53 :> "Moderate drizzle")
    @@ (55 :> "Dense drizzle")
    @@ (56 :> "Light freezing drizzle") @@ (57 :> "Freezing drizzle")
    @@ (61 :> "Light rain") @@ (63 :> "Moderate rain") @@ (65 :> "Heavy rain")
    @@ (66 :> "Light freezing rain") @@ (67 :> "Freezing rain")
    @@ (71 :> "Light snow") @@ (73 :> "Moderate snow") @@ (75 :> "Heavy snow")
    @@ (77 :> "Snow grains")
    @@ (80 :> "Light showers") @@ (81 :> "Moderate showers")
    @@ (82 :> "Violent showers")
    @@ (85 :> "Light snow showers") @@ (86 :> "Heavy snow showers")
    @@ (95 :> "Thunderstorm") @@ (96 :> "Thunderstorm with slight hail")

map_en ==
    (0 :> "Clear") @@ (1 :> "Mostly clear") @@ (2 :> "Partly cloudy")
    @@ (3 :> "Overcast")
    @@ (45 :> "Fog") @@ (48 :> "Depositing rime fog")
    @@ (51 :> "Light drizzle") @@ (53 :> "Moderate drizzle")
    @@ (55 :> "Dense drizzle")
    @@ (56 :> "Light freezing drizzle") @@ (57 :> "Freezing drizzle")
    @@ (61 :> "Light rain") @@ (63 :> "Moderate rain") @@ (65 :> "Heavy rain")
    @@ (66 :> "Light freezing rain") @@ (67 :> "Freezing rain")
    @@ (71 :> "Light snow") @@ (73 :> "Moderate snow") @@ (75 :> "Heavy snow")
    @@ (77 :> "Snow grains")
    @@ (80 :> "Light showers") @@ (81 :> "Moderate showers")
    @@ (82 :> "Violent showers")
    @@ (85 :> "Light snow showers") @@ (86 :> "Heavy snow showers")
    @@ (95 :> "Thunderstorm") @@ (96 :> "Thunderstorm with slight hail")
    @@ (97 :> "...with heavy hail")

\* language.lower().startswith("es")
IsSpanish(language) == StartsWith(Lower(language), <<"e", "s">>)

\* code is any Python value, language a str
_code_to_text(code, language) ==
    LET table == IF IsSpanish(language) THEN map_es ELSE map_en
        key == Int_(code)
    IN  IF key.exc # "none" THEN [exc |-> key.exc, val |-> <<>>]
        ELSE IF key.val \in DOMAIN table
             THEN [exc |-> "none", val |-> <<table[key.val]>>]
             ELSE [exc |-> "none", val |-> <<"Código ">> \o Format(code)]

(***************************************************************************)
(* _fmt_alert_item                                                         *)
(***************************************************************************)
\* a.get(k) of a record a
AlertGet(a, k) == DictGet(a, k, None)

\* a.get("event") or a.get("headline") or "Alerta"
AlertHeadline_EventFirst(a) ==
    Or(Or(AlertGet(a, "event"), AlertGet(a, "headline")), PyStr(<<"Alerta">>))

AlertHeadline(a) ==
    Or(Or(AlertGet(a, "headline"), AlertGet(a, "event")), PyStr(<<"Alerta">>))

AlertSeverity(a) ==
    Or(Or(AlertGet(a, "severity"), AlertGet(a, "level")),
       PyStr(<<"desconocida">>))

AlertDescription(a) ==
    Or(Or(Or(AlertGet(a, "description"), AlertGet(a, "instruction")),
          AlertGet(a, "text")),
       PyStr(<<"Sin descripción">>))

AlertSender(a) ==
    Or(Or(AlertGet(a, "sender"), AlertGet(a, "provider")), PyStr(<<>>))

AlertOnset(a) ==
    Or(Or(AlertGet(a, "onset"), AlertGet(a, "effective")), PyStr(<<>>))

AlertExpires(a) ==
    Or(Or(AlertGet(a, "expires"), AlertGet(a, "ends")), PyStr(<<>>))

\* a is any Python value (a record of the provider), language a str
_fmt_alert_item(a, language) ==
    IF a.t # "dict" THEN [exc |-> "AttributeError", val |-> <<>>]
    ELSE
    LET headline == AlertHeadline(a)
        severity == AlertSeverity(a)
        description == AlertDescription(a)
        sender == AlertSender(a)
        onset == AlertOnset(a)
        expires == AlertExpires(a)
    IN  IF IsSpanish(language)
        THEN [exc |-> "none", val |->
                <<"(!) ">> \o Format(headline) \o <<"\n">>
                \o <<"Severidad: ">> \o Format(severity) \o <<"\n">>
                \o <<"Desde: ">> \o Format(Or(onset, PyStr(<<"N/D">>)))
                \o <<"  Hasta: ">> \o Format(Or(expires, PyStr(<<"N/D">>)))
                \o <<"\n">>
                \o <<"Fuente: ">> \o Format(Or(sender, PyStr(<<"N/D">>)))
                \o <<"\n">>
                \o <<"Detalle: ">> \o Format(description) \o <<"\n">>]
        ELSE [exc |-> "none", val |->
                <<"(!) ">> \o Format(headline) \o <<"\n">>
                \o <<"Severity: ">> \o Format(severity) \o <<"\n">>
                \o <<"From: ">> \o Format(Or(onset, PyStr(<<"N/A">>)))
                \o <<"  Until: ">> \o Format(Or(expires, PyStr(<<"N/A">>)))
                \o <<"\n">>
                \o <<"Source: ">> \o Format(Or(sender, PyStr(<<"N/A">>)))
                \o <<"\n">>
                \o <<"Details: ">> \o Format(description) \o <<"\n">>]

(***************************************************************************)
(* get_forecast                                                            *)
(***************************************************************************)
MinDays == 1

MaxDays == 16

\* the guards on days without the second one
ClampDays_NoUpper(days) == IF days < MinDays THEN MinDays ELSE days

\* the two guards on days at the head of get_forecast
ClampDays(days) ==
    LET d1 == IF days < MinDays THEN MinDays ELSE days
    IN  IF d1 > MaxDays THEN MaxDays ELSE d1

\* the request get_forecast hands to _om_get
ForecastRequest(latitude, longitude, days, units) ==
    LET um == _units_map(units)
    IN  [path |-> "forecast",
         params |->
           [latitude |-> latitude,
            longitude |-> longitude,
            timezone |-> "auto",
            forecast_days |-> ClampDays(days),
            daily |-> <<"temperature_2m_max", "temperature_2m_min",
                        "precipitation_sum", "windspeed_10m_max",
                        "weathercode">>,
            current |-> <<"temperature_2m", "windspeed_10m", "weathercode">>,
            temperature_unit |-> um.temperature_unit,
            windspeed_unit |-> um.windspeed_unit,
            precipitation_unit |-> um.precipitation_unit]]

FetchForecastFailed == <<"No pude obtener el pronóstico de Open-Meteo.">>

\* the current-conditions line; cur is a non-empty dict
CurrentLine(cur, um, language) ==
    LET tc == DictGet(cur, "temperature_2m", None)
        wc == DictGet(cur, "weathercode", None)
        ws == DictGet(cur, "windspeed_10m", None)
        sky == _code_to_text(wc, language)
    IN  IF sky.exc # "none" THEN sky
        ELSE [exc |-> "none", val |->
                <<"Ahora: ">> \o Format(tc) \o <<"° ">>
                \o <<"| Viento: ">> \o Format(ws)
                \o <<" ", um.windspeed_unit, " ">>
                \o <<"| Cielo: ">> \o sky.val]

\* xs[i] of the loop (i counts from 0): IndexError past the end of a list
Subscript(xs, i) ==
    IF xs.t = "list"
    THEN IF i < Len(xs.items)
         THEN [exc |-> "none", val |-> xs.items[i + 1]]
         ELSE [exc |-> "IndexError", val |-> None]
    ELSE [exc |-> "TypeError", val |-> None]

\* daily.get(k, []) or []
DailyList(daily, k) == Or(DictGet(daily, k, PyList(<<>>)), PyList(<<>>))

\* the body of the try of the loop for index i and date d: the line, or the
\* exception the except clause swallows
DayLine(daily, i, d, um, language) ==
    LET tmax == Subscript(DailyList(daily, "temperature_2m_max"), i)
        tmin == Subscript(DailyList(daily, "temperature_2m_min"), i)
        prcp == Subscript(DailyList(daily, "precipitation_sum"), i)
        wmax == Subscript(DailyList(daily, "windspeed_10m_max"), i)
        wcode == Subscript(DailyList(daily, "weathercode"), i)
        sky == IF wcode.exc = "none" THEN _code_to_text(wcode.val, language)
               ELSE wcode
    IN  IF tmax.exc # "none" THEN tmax
        ELSE IF tmin.exc # "none" THEN tmin
        ELSE IF prcp.exc # "none" THEN prcp
        ELSE IF wmax.exc # "none" THEN wmax
        ELSE IF sky.exc # "none" THEN sky
        ELSE [exc |-> "none", val |->
                Format(d) \o <<": máx ">> \o Format(tmax.val)
                \o <<"°, mín ">> \o Format(tmin.val) \o <<"°, ">>
                \o <<"lluvia ">> \o Format(prcp.val)
                \o <<" ", um.precipitation_unit, ", ">>
                \o <<"viento máx ">> \o Format(wmax.val)
                \o <<" ", um.windspeed_unit, ", ">>
                \o sky.val]

RECURSIVE DayLines(_, _, _, _, _)
\* the lines the loop appends for the indices i, i+1, ... of dates
DayLines(daily, dates, i, um, language) ==
    IF i >= Len(dates) THEN <<>>
    ELSE LET line == DayLine(daily, i, dates[i + 1], um, language)
             rest == DayLines(daily, dates, i + 1, um, language)
         IN  IF line.exc = "none" THEN <<line.val>> \o rest ELSE rest

\* "\n".join(out) without the .strip()
JoinLines_NoStrip(out) == Join(<<"\n">>, out)

\* "\n".join(out).strip()
JoinLines(out) == Strip(Join(<<"\n">>, out))

\* get_forecast from the return of _om_get on; resp is None or a JSON
\* object whose 'current' and 'daily' are objects and whose daily fields
\* are lists or null
ForecastBody(resp, um, language) ==
    IF ~Truthy(resp) THEN [exc |-> "none", val |-> FetchForecastFailed]
    ELSE IF resp.t # "dict" THEN [exc |-> "AttributeError", val |-> <<>>]
    ELSE
    LET cur == DictGet(resp, "current", EmptyDict)
        now == IF Truthy(cur) THEN
                   IF cur.t = "dict" THEN CurrentLine(cur, um, language)
                   ELSE [exc |-> "AttributeError", val |-> <<>>]
               ELSE [exc |-> "none", val |-> <<>>]
        out1 == IF Truthy(cur) THEN <<now.val>> ELSE <<>>
        daily == DictGet(resp, "daily", EmptyDict)
    IN  IF now.exc # "none" THEN now
        ELSE IF daily.t # "dict" THEN [exc |-> "AttributeError", val |-> <<>>]
        ELSE
        LET dates == DailyList(daily, "time")
            out2 == Append(out1, <<>>)
        IN  IF dates.t # "list" THEN [exc |-> "TypeError", val |-> <<>>]
            ELSE [exc |-> "none", val |->
                    JoinLines(out2 \o DayLines(daily, dates.items, 0, um,
                                               language))]

(***************************************************************************)
(* get_alerts                                                              *)
(***************************************************************************)
AlertsRequest(latitude, longitude) ==
    [path |-> "warnings",
     params |-> [latitude |-> latitude, longitude |-> longitude,
                 timezone |-> "auto"]]

FetchAlertsFailed ==
    <<"No pude obtener alertas (o el servicio no tiene cobertura para esta ubicación).">>

NoActiveAlerts == <<"Sin alertas activas para estas coordenadas.">>

AlertSeparator == <<"\n", "---", "\n">>

RECURSIVE FormatAlerts(_, _)
\* [_fmt_alert_item(w, language) for w in items]: the list of blocks, or the
\* first exception
FormatAlerts(items, language) ==
    IF items = <<>> THEN [exc |-> "none", val |-> <<>>]
    ELSE LET first == _fmt_alert_item(Head(items), language)
             rest == FormatAlerts(Tail(items), language)
         IN  IF first.exc # "none" THEN first
             ELSE IF rest.exc # "none" THEN rest
             ELSE [exc |-> "none", val |-> <<first.val>> \o rest.val]

\* get_alerts from the return of _om_get on
AlertsBody(resp, language) ==
    IF ~Truthy(resp) THEN [exc |-> "none", val |-> FetchAlertsFailed]
    ELSE IF resp.t # "dict" THEN [exc |-> "AttributeError", val |-> <<>>]
    ELSE
    LET warnings == Or(Or(Or(DictGet(resp, "warnings", None),
                             DictGet(resp, "events", None)),
                          DictGet(resp, "alerts", None)),
                       PyList(<<>>))
    IN  IF ~Truthy(warnings) THEN [exc |-> "none", val |-> NoActiveAlerts]
        ELSE IF warnings.t = "int"
             THEN [exc |-> "TypeError", val |-> <<>>]
        ELSE IF warnings.t # "list"
             THEN [exc |-> "AttributeError", val |-> <<>>]
        ELSE LET formatted == FormatAlerts(warnings.items, language)
             IN  IF formatted.exc # "none" THEN formatted
                 ELSE [exc |-> "none",
                       val |-> Join(AlertSeparator, formatted.val)]

(***************************************************************************)
(* _om_get: the parsed body of the response, or None when the request, the *)
(* status check or the parsing raised.  What the provider answers is not   *)
(* decided by the program: every response of the given set may come back.  *)
(***************************************************************************)
_om_get(responses) == {None} \cup responses

(***************************************************************************)
(* Inputs.                                                                 *)
(***************************************************************************)
Absent == [t |-> "absent"]

\* the object with the given keys, less those given as Absent
Object(m) == PyDict([k \in {j \in DOMAIN m : m[j] # Absent} |-> m[k]])

Locations == {[latitude |-> 40, longitude |-> -4]}

DefaultDays == 3

DaysInputs == (MinDays - DaysSlack)..(MaxDays + DaysSlack)

ToolUnits == {PyStr(Metric), PyStr(Imperial)}

ToolLanguages == {<<"e", "s">>, <<"e", "n">>}

Languages ==
    {<<"e", "s">>, <<"E", "S">>, <<"e", "s", "-", "M", "X">>,
     <<"e", "n">>, <<"E", "N">>, <<>>}

UnitsInputs ==
    {None, PyStr(<<>>), PyStr(Metric), PyStr(Imperial),
     PyStr(<<"I", "M", "P", "E", "R", "I", "A", "L">>),
     PyStr(<<"I", "m", "p", "e", "r", "i", "a", "l">>),
     PyStr(<<" ", "i", "m", "p", "e", "r", "i", "a", "l">>),
     PyStr(<<"i", "m", "p", "e", "r", "i", "a", "l", " ">>),
     PyStr(<<"i", "m", "p", "e", "r", "i", "a">>),
     PyStr(<<"i", "m", "p", "e", "r", "i", "a", "l", "x">>),
     PyStr(<<"M", "E", "T", "R", "I", "C">>)}

\* largest condition code handed to _code_to_text, besides 9999
MaxCode == 99

CodeInputs ==
    {PyInt(n) : n \in (0..MaxCode) \cup {9999, -1}}
    \cup {None, PyStr(<<"n/a">>)}

\* ---- forecast responses ----
CurrentChoices ==
    {Absent,
     EmptyDict,
     Object([temperature_2m |-> PyInt(21), windspeed_10m |-> PyInt(9),
             weathercode |-> PyInt(3)]),
     Object([temperature_2m |-> PyInt(21), windspeed_10m |-> PyInt(9)])}

DateOf(i) == PyStr(<<"2025-01-0", ToString(i)>>)

DateList(n) == PyList([i \in 1..n |-> DateOf(i)])

NumberList(n) == PyList([i \in 1..n |-> PyInt(10 + i)])

CodeValues == {PyInt(3), None}

CodeLists(n) == UNION {{PyList(c) : c \in [1..k -> CodeValues]} : k \in 0..n}

\* the lengths of a number list beside n dates: empty, one short, or full
Lengths(n) == {0} \cup {k \in 0..n : k >= n - 1}

DailyChoices ==
    {Absent, EmptyDict, Object([time |-> None])}
    \cup UNION {
        {Object([time |-> DateList(n),
                 temperature_2m_max |-> NumberList(k1),
                 temperature_2m_min |-> NumberList(k2),
                 precipitation_sum |-> NumberList(k3),
                 windspeed_10m_max |-> NumberList(k4),
                 weathercode |-> codes]) :
            k1 \in Lengths(n), k2 \in Lengths(n), k3 \in Lengths(n),
            k4 \in Lengths(n),
            codes \in CodeLists(n)} : n \in 0..MaxDates}

ForecastResponses ==
    {EmptyDict}
    \cup {Object([timezone |-> PyStr(<<"GMT">>), current |-> c, daily |-> d]) :
            c \in CurrentChoices, d \in DailyChoices}

FewForecastResponses ==
    {Object([timezone |-> PyStr(<<"GMT">>),
             current |-> Object([temperature_2m |-> PyInt(21),
                                 windspeed_10m |-> PyInt(9),
                                 weathercode |-> PyInt(3)]),
             daily |-> Object([time |-> DateList(1),
                               temperature_2m_max |-> NumberList(1),
                               temperature_2m_min |-> NumberList(1),
                               precipitation_sum |-> NumberList(1),
                               windspeed_10m_max |-> NumberList(1),
                               weathercode |-> PyList(<<PyInt(3)>>)])]),
     EmptyDict}

\* ---- alert records and responses ----
FieldKeys ==
    <<<<"headline", "event">>, <<"severity", "level">>,
      <<"description", "instruction", "text">>, <<"sender", "provider">>,
      <<"onset", "effective">>, <<"expires", "ends">>>>

AllKeys == UNION {{FieldKeys[f][j] : j \in DOMAIN FieldKeys[f]} : f \in DOMAIN FieldKeys}

FieldOf(k) == CHOOSE f \in DOMAIN FieldKeys : \E j \in DOMAIN FieldKeys[f] : FieldKeys[f][j] = k

PosOf(k) == CHOOSE j \in DOMAIN FieldKeys[FieldOf(k)] : FieldKeys[FieldOf(k)][j] = k

KeyStates == {"absent", "null", "empty", "zero", "value"}

\* the value a key holds in a given state; a present value is the key's name
KeyValue(k, st) ==
    CASE st = "absent" -> Absent
      [] st = "null" -> None
      [] st = "empty" -> PyStr(<<>>)
      [] st = "zero" -> PyInt(0)
      [] st = "value" -> PyStr(<<k>>)

Backgrounds == {"absent", "primary", "last", "all"}

BackgroundState(b, k) ==
    CASE b = "absent" -> "absent"
      [] b = "primary" -> IF PosOf(k) = 1 THEN "value" ELSE "absent"
      [] b = "last" -> IF PosOf(k) = Len(FieldKeys[FieldOf(k)]) THEN "value"
                       ELSE "absent"
      [] b = "all" -> "value"

\* a record whose field f has the key states asg and whose other fields
\* follow the background b
AlertRecord(f, asg, b) ==
    Object([k \in AllKeys |->
              KeyValue(k, IF FieldOf(k) = f THEN asg[PosOf(k)]
                          ELSE BackgroundState(b, k))])

AlertRecords ==
    UNION {{AlertRecord(f, asg, b) :
              asg \in [DOMAIN FieldKeys[f] -> KeyStates], b \in Backgrounds} :
           f \in DOMAIN FieldKeys}

ResponseRecords ==
    {EmptyDict,
     Object([headline |-> PyStr(<<"headline">>), event |-> PyStr(<<"event">>),
             severity |-> PyStr(<<"severity">>)]),
     PyStr(<<"storm">>)}

\* what 'warnings' holds: nothing, null, or a list of up to MaxAlerts records
KeyOptions ==
    {Absent, None, PyList(<<>>)}
    \cup UNION {{PyList(rs) : rs \in [1..k -> ResponseRecords]} : k \in 1..MaxAlerts}

\* what 'events' and 'alerts' hold: nothing, null, or a list of up to one
\* record
LaterKeyOptions ==
    {Absent, None, PyList(<<>>), PyList(<<EmptyDict>>)}

AlertsResponses ==
    {EmptyDict}
    \cup {Object([generationtime_ms |-> g, warnings |-> w, events |-> e,
                  alerts |-> a]) :
            g \in {Absent, PyInt(1)}, w \in KeyOptions,
            e \in LaterKeyOptions, a \in LaterKeyOptions}

(***************************************************************************)
(* State: one invocation at a time (invocations share no state).           *)
(*   pc       "idle", "await" (suspended in _om_get) or "done"             *)
(*   op       the function invoked                                         *)
(*   args     its arguments                                                *)
(*   request  the request handed to _om_get                                *)
(*   data     what _om_get returned                                        *)
(*   result   how the invocation ended: the value returned or the          *)
(*            exception raised                                             *)
(***************************************************************************)
NoRequest == [path |-> "", params |-> <<>>]

NoResult == [exc |-> "none", val |-> <<>>]

Init ==
    /\ pc = "idle"
    /\ op = ""
    /\ args = <<>>
    /\ request = NoRequest
    /\ data = None
    /\ result = NoResult

\* get_forecast up to the await
get_forecast(latitude, longitude, days, units, language) ==
    /\ pc = "idle"
    /\ pc' = "await"
    /\ op' = "get_forecast"
    /\ args' = [latitude |-> latitude, longitude |-> longitude, days |-> days,
                units |-> units, language |-> language]
    /\ request' = ForecastRequest(latitude, longitude, days, units)
    /\ UNCHANGED <<data, result>>

\* _om_get returns resp and get_forecast runs to its end
get_forecast_resume(resp) ==
    /\ pc = "await"
    /\ op = "get_forecast"
    /\ pc' = "done"
    /\ data' = resp
    /\ result' = ForecastBody(resp, _units_map(args.units), args.language)
    /\ UNCHANGED <<op, args, request>>

\* get_alerts up to the await
get_alerts(latitude, longitude, language) ==
    /\ pc = "idle"
    /\ pc' = "await"
    /\ op' = "get_alerts"
    /\ args' = [latitude |-> latitude, longitude |-> longitude,
                language |-> language]
    /\ request' = AlertsRequest(latitude, longitude)
    /\ UNCHANGED <<data, result>>

\* _om_get returns resp and get_alerts runs to its end
get_alerts_resume(resp) ==
    /\ pc = "await"
    /\ op = "get_alerts"
    /\ pc' = "done"
    /\ data' = resp
    /\ result' = AlertsBody(resp, args.language)
    /\ UNCHANGED <<op, args, request>>

\* a direct call of _units_map
CallUnitsMap(units) ==
    /\ pc = "idle"
    /\ pc' = "done"
    /\ op' = "_units_map"
    /\ args' = [units |-> units]
    /\ result' = [exc |-> "none", val |-> _units_map(units)]
    /\ UNCHANGED <<request, data>>

\* a direct call of _code_to_text
CallCodeToText(code, language) ==
    /\ pc = "idle"
    /\ pc' = "done"
    /\ op' = "_code_to_text"
    /\ args' = [code |-> code, language |-> language]
    /\ result' = _code_to_text(code, language)
    /\ UNCHANGED <<request, data>>

\* a direct call of _fmt_alert_item
CallFmtAlertItem(a, language) ==
    /\ pc = "idle"
    /\ pc' = "done"
    /\ op' = "_fmt_alert_item"
    /\ args' = [a |-> a, language |-> language]
    /\ result' = _fmt_alert_item(a, language)
    /\ UNCHANGED <<request, data>>

\* the invocation is over; the next one starts from nothing
Return ==
    /\ pc = "done"
    /\ pc' = "idle"
    /\ op' = ""
    /\ args' = <<>>
    /\ request' = NoRequest
    /\ data' = None
    /\ result' = NoResult

\* get_forecast over every response shape, with the default day count
NextForecast ==
    \/ \E loc \in Locations, units \in ToolUnits, language \in ToolLanguages :
         get_forecast(loc.latitude, loc.longitude, DefaultDays, units, language)
    \/ \E resp \in _om_get(ForecastResponses) : get_forecast_resume(resp)
    \/ Return

SpecForecast == Init /\ [][NextForecast]_vars

\* get_forecast over every day count
NextRequest ==
    \/ \E loc \in Locations, days \in DaysInputs, units \in ToolUnits,
          language \in ToolLanguages :
         get_forecast(loc.latitude, loc.longitude, days, units, language)
    \/ \E resp \in _om_get(FewForecastResponses) : get_forecast_resume(resp)
    \/ Return

SpecRequest == Init /\ [][NextRequest]_vars

NextAlerts ==
    \/ \E loc \in Locations, language \in ToolLanguages :
         get_alerts(loc.latitude, loc.longitude, language)
    \/ \E resp \in _om_get(AlertsResponses) : get_alerts_resume(resp)
    \/ Return

SpecAlerts == Init /\ [][NextAlerts]_vars

\* the helpers called directly
NextPure ==
    \/ \E units \in UnitsInputs : CallUnitsMap(units)
    \/ \E code \in CodeInputs, language \in Languages :
         CallCodeToText(code, language)
    \/ \E a \in AlertRecords \cup {PyStr(<<"storm">>)}, language \in Languages :
         CallFmtAlertItem(a, language)
    \/ Return

SpecPure == Init /\ [][NextPure]_vars

Next == NextForecast \/ NextRequest \/ NextAlerts \/ NextPure

Spec == Init /\ [][Next]_vars

(***************************************************************************)
(* Properties.                                                             *)
(***************************************************************************)
ForecastDone == pc = "done" /\ op = "get_forecast"

AlertsDone == pc = "done" /\ op = "get_alerts"

\* the number of chunks of text equal to c
Count(text, c) == Cardinality({i \in DOMAIN text : text[i] = c})

\* the elements of a finite set of integers in increasing order
Sorted(S) ==
    [i \in 1..Cardinality(S) |->
        CHOOSE x \in S : Cardinality({y \in S : y < x}) = i - 1]

\* the length of the list under key k of object d; 0 when absent or null
ListLen(d, k) ==
    IF k \in DOMAIN d.m /\ d.m[k].t = "list" THEN Len(d.m[k].items) ELSE 0

\* the text has an empty line
HasBlankLine(text) ==
    \E i \in DOMAIN text : text[i] = "\n" /\ (i = 1 \/ text[i - 1] = "\n")

\* C1: every invocation of get_forecast and get_alerts ends by returning a
\* string, for every fetch outcome; none ends with an exception.
C1_NoException ==
    (pc = "done" /\ op \in {"get_forecast", "get_alerts"})
        => result.exc = "none"

\* C2: get_alerts has three outcomes: the 'could not fetch' message on a
\* fetch failure; the different 'no active alerts' message for every
\* successful response none of whose keys warnings, events, alerts holds a
\* non-empty list; otherwise the records of the first such key, formatted
\* and joined with "\n---\n".
C2_ThreeOutcomes ==
    AlertsDone =>
        LET lists == <<ListLen(data, "warnings"), ListLen(data, "events"),
                       ListLen(data, "alerts")>>
            chosen == IF lists[1] > 0 THEN lists[1]
                      ELSE IF lists[2] > 0 THEN lists[2] ELSE lists[3]
        IN  /\ FetchAlertsFailed # NoActiveAlerts
            /\ IF data.t = "NoneType"
               THEN result = [exc |-> "none", val |-> FetchAlertsFailed]
               ELSE IF chosen = 0
               THEN result = [exc |-> "none", val |-> NoActiveAlerts]
               ELSE result.exc = "none" =>
                      /\ Count(result.val, "(!) ") = chosen
                      /\ Count(result.val, "---") = chosen - 1

\* C3: the request get_forecast issues carries forecast_days =
\* min(16, max(1, days)), always within 1..16, and is the request a call
\* with that day count issues.
C3_ClampedRequest ==
    (pc \in {"await", "done"} /\ op = "get_forecast") =>
        LET sent == request.params.forecast_days
        IN  /\ sent \in 1..16
            /\ args.days < 1 => sent = 1
            /\ args.days > 16 => sent = 16
            /\ args.days \in 1..16 => sent = args.days
            /\ request = ForecastRequest(args.latitude, args.longitude, sent,
                                         args.units)

C3_Witness ==
    /\ pc = "await"
    /\ op = "get_forecast"
    /\ args.days = 17
    /\ request.params.forecast_days = 16
    /\ data = None

\* the dates of the day lines of the text, in the order of the text
ShownDates(text) ==
    LET at == Sorted({i \in DOMAIN text : text[i] = ": máx "})
    IN  [j \in DOMAIN at |-> text[at[j] - 1]]

\* C4: a day line is emitted for index i of the dates exactly when index i
\* exists in all five other sequences, in date order, and nothing is raised.
C4_LineIffAllPresent ==
    (ForecastDone /\ result.exc = "none" /\ Truthy(data)
     /\ "daily" \in DOMAIN data.m /\ data.m["daily"].t = "dict") =>
        LET daily == data.m["daily"]
            inAll == {i \in 1..ListLen(daily, "time") :
                        /\ i <= ListLen(daily, "temperature_2m_max")
                        /\ i <= ListLen(daily, "temperature_2m_min")
                        /\ i <= ListLen(daily, "precipitation_sum")
                        /\ i <= ListLen(daily, "windspeed_10m_max")
                        /\ i <= ListLen(daily, "weathercode")}
            ids == Sorted(inAll)
        IN  ShownDates(result.val) = [j \in DOMAIN ids |-> ToString(ids[j])]

\* the response is an object whose 'current' is absent or empty
NoCurrent ==
    /\ Truthy(data)
    /\ data.t = "dict"
    /\ "current" \in DOMAIN data.m => ~Truthy(data.m["current"])

\* C5 as stated: with 'current' absent or empty the returned text has no
\* current-conditions line and still has the blank separator line before
\* the day entries.
C5_SeparatorSurvives ==
    (ForecastDone /\ NoCurrent /\ result.exc = "none"
     /\ Count(result.val, ": máx ") > 0) =>
        /\ Count(result.val, "Ahora: ") = 0
        /\ HasBlankLine(result.val)

\* C5 amended: with 'current' absent or empty the returned text has no
\* current-conditions line and no blank line: the separator, being the first
\* line, is removed by the final strip(), and the text starts with the first
\* day entry (it is empty when there is none).
C5_SeparatorStripped ==
    (ForecastDone /\ NoCurrent /\ result.exc = "none") =>
        /\ Count(result.val, "Ahora: ") = 0
        /\ ~HasBlankLine(result.val)
        /\ result.val # <<>> => ~IsSpace(result.val[1])
        /\ Count(result.val, ": máx ") > 0 => result.val[3] = ": máx "
        /\ Count(result.val, ": máx ") = 0 => result.val = <<>>

C5_Witness ==
    /\ ForecastDone
    /\ NoCurrent
    /\ result.exc = "none"
    /\ Count(result.val, ": máx ") = 2

\* C6: for an integer code in neither table _code_to_text returns
\* "Código {code}" for a Spanish locale and "Code {code}" for an English one.
C6_FallbackLocalized ==
    (pc = "done" /\ op = "_code_to_text" /\ args.code.t = "int"
     /\ args.language \in {<<"e", "s">>, <<"e", "n">>}
     /\ args.code.n \notin DOMAIN map_es \cup DOMAIN map_en) =>
        result = [exc |-> "none",
                  val |-> IF IsSpanish(args.language)
                          THEN <<"Código ", ToString(args.code.n)>>
                          ELSE <<"Code ", ToString(args.code.n)>>]

\* C7: for a record with no keys _fmt_alert_item returns the defaults of
\* the locale: Alerta, desconocida, Sin descripción and N/D three times in
\* Spanish; Alert, unknown, No description and N/A three times in English.
C7_EmptyRecordDefaults ==
    (pc = "done" /\ op = "_fmt_alert_item" /\ args.a = EmptyDict
     /\ args.language \in {<<"e", "s">>, <<"e", "n">>}) =>
        /\ result.exc = "none"
        /\ IF IsSpanish(args.language)
           THEN /\ Count(result.val, "Alerta") = 1
                /\ Count(result.val, "desconocida") = 1
                /\ Count(result.val, "Sin descripción") = 1
                /\ Count(result.val, "N/D") = 3
           ELSE /\ Count(result.val, "Alert") = 1
                /\ Count(result.val, "unknown") = 1
                /\ Count(result.val, "No description") = 1
                /\ Count(result.val, "N/A") = 3

\* the chunks of the block between a label and the end of its field
FieldText(text, label) ==
    LET p == CHOOSE i \in DOMAIN text : text[i] = label
        ends == {j \in DOMAIN text :
                    j > p /\ text[j] \in {"\n", "  Hasta: ", "  Until: "}}
        q == CHOOSE j \in ends : \A k \in ends : j <= k
    IN  SubSeq(text, p + 1, q - 1)

\* the six fields: the keys in priority order, the label that precedes the
\* value in the block, and the text shown when no key yields a value
Fields(language) ==
    LET es == IsSpanish(language)
        na == IF es THEN "N/D" ELSE "N/A"
    IN  {[keys |-> <<"headline", "event">>, label |-> "(!) ",
          default |-> "Alerta"],
         [keys |-> <<"severity", "level">>,
          label |-> IF es THEN "Severidad: " ELSE "Severity: ",
          default |-> "desconocida"],
         [keys |-> <<"description", "instruction", "text">>,
          label |-> IF es THEN "Detalle: " ELSE "Details: ",
          default |-> "Sin descripción"],
         [keys |-> <<"sender", "provider">>,
          label |-> IF es THEN "Fuente: " ELSE "Source: ", default |-> na],
         [keys |-> <<"onset", "effective">>,
          label |-> IF es THEN "Desde: " ELSE "From: ", default |-> na],
         [keys |-> <<"expires", "ends">>,
          label |-> IF es THEN "  Hasta: " ELSE "  Until: ", default |-> na]}

FmtDone == pc = "done" /\ op = "_fmt_alert_item" /\ args.a.t = "dict"

\* C8 as stated: each field shows the value of its first key present in the
\* record, and the default only when none of its keys is present.
C8_FirstPresentKey ==
    FmtDone =>
        /\ result.exc = "none"
        /\ \A f \in Fields(args.language) :
             LET present == {j \in DOMAIN f.keys : f.keys[j] \in DOMAIN args.a.m}
                 first == CHOOSE j \in present : \A k \in present : j <= k
             IN  FieldText(result.val, f.label) =
                    IF present = {} THEN <<f.default>>
                    ELSE Format(args.a.m[f.keys[first]])

\* C8 amended: each field shows the value of its first key, in priority
\* order, whose value is true in Python's sense (present, not null, not
\* empty, not zero), and the default only when none of its keys has one.
C8_FirstTruthyKey ==
    FmtDone =>
        /\ result.exc = "none"
        /\ \A f \in Fields(args.language) :
             LET usable == {j \in DOMAIN f.keys :
                              /\ f.keys[j] \in DOMAIN args.a.m
                              /\ Truthy(args.a.m[f.keys[j]])}
                 first == CHOOSE j \in usable : \A k \in usable : j <= k
             IN  FieldText(result.val, f.label) =
                    IF usable = {} THEN <<f.default>>
                    ELSE Format(args.a.m[f.keys[first]])

C8_Witness ==
    /\ FmtDone
    /\ result.exc = "none"
    /\ "headline" \in DOMAIN args.a.m
    /\ "event" \in DOMAIN args.a.m
    /\ args.a.m["headline"] = PyStr(<<>>)
    /\ Truthy(args.a.m["event"])
    /\ FieldText(result.val, "(!) ") = <<"event">>

UnitsDone == pc = "done" /\ op = "_units_map"

\* C9 as stated: _units_map lower-cases and trims its input and returns the
\* imperial set exactly when the outcome is "imperial", the metric set
\* otherwise.
C9_LowerAndTrim ==
    UnitsDone =>
        LET u == IF Truthy(args.units) THEN Strip(Lower(args.units.s))
                 ELSE <<>>
        IN  result.val = IF u = Imperial THEN ImperialUnits ELSE MetricUnits

ImperialUpper == <<"I", "M", "P", "E", "R", "I", "A", "L">>

\* C9 amended: _units_map lower-cases its input, without trimming it, and
\* returns one of the two complete sets: the imperial one exactly when the
\* input is "imperial" in any mix of cases, the metric one otherwise.
C9_LowerOnly ==
    UnitsDone =>
        LET u == args.units
            isImperial ==
                /\ u.t = "str"
                /\ Len(u.s) = Len(Imperial)
                /\ \A i \in DOMAIN u.s : u.s[i] \in {Imperial[i], ImperialUpper[i]}
        IN  /\ result.exc = "none"
            /\ result.val \in {ImperialUnits, MetricUnits}
            /\ result.val = ImperialUnits <=> isImperial

C9_Witness ==
    /\ UnitsDone
    /\ args.units = PyStr(<<" ", "i", "m", "p", "e", "r", "i", "a", "l">>)
    /\ result.val = MetricUnits

\* C10: the two tables have the same keys, so that a code falls back under
\* one locale exactly when it falls back under the other.
C10_SameKeys ==
    /\ DOMAIN map_es = DOMAIN map_en
    /\ (pc = "done" /\ op = "_code_to_text" /\ result.exc = "none") =>
         LET other == IF IsSpanish(args.language) THEN <<"e", "n">>
                      ELSE <<"e", "s">>
             there == _code_to_text(args.code, other)
         IN  (result.val[1] = "Código ") <=> (there.val[1] = "Código ")

C10_Witness ==
    /\ pc = "done"
    /\ op = "_code_to_text"
    /\ args.code = PyInt(97)
    /\ ~IsSpanish(args.language)
    /\ result = [exc |-> "none", val |-> <<"...with heavy hail">>]

====
